---- MODULE Spec2Model ----
(***************************************************************************)
(* A model of the core layouting engine, src/src/layout/mod.rs:            *)
(*   - the geometry primitives (LayoutSpace, LayoutAxes, Axis, anchor),    *)
(*   - the LastSpacing state of a layouter and the spacing kinds,          *)
(*   - the serialization of Layout and MultiLayout.                        *)
(* Sizes (f32 points in the program) are modelled as integers.             *)
(***************************************************************************)
EXTENDS Integers, Sequences, FiniteSets

VARIABLES
    \* geometry: the last call made, its argument and what it returned
    op, arg, ret,
    \* a layouter's spacing state and the actions it has emitted
    last_spacing, pending_hard, actions, reqs, finished,
    \* serialization: the value serialized, the writer and the position
    target, out, pc, li, ai, result

geomVars == <<op, arg, ret>>
spacingVars == <<last_spacing, pending_hard, actions, reqs, finished>>
serVars == <<target, out, pc, li, ai, result>>
vars == <<op, arg, ret, last_spacing, pending_hard, actions, reqs, finished,
          target, out, pc, li, ai, result>>

(***************************************************************************)
(* Bounds of the model.                                                    *)
(***************************************************************************)
MaxDim == 2
MaxPad == 2
MaxSize == 3
MaxLevel == 3
MaxRequests == 3
MaxContent == 2
MaxLayouts == 2
MaxActions == 2

(***************************************************************************)
(* Geometry: values.                                                       *)
(***************************************************************************)
Axis == {"LeftToRight", "RightToLeft", "TopToBottom", "BottomToTop"}

Alignment == {"Origin", "Center", "End"}

Size2D_new(x, y) == [x |-> x, y |-> y]

SizeBox_zero == [left |-> 0, top |-> 0, right |-> 0, bottom |-> 0]

Size_zero == 0

\* Size2D::unpadded (crate::size): the size reduced by the padding on each side.
unpadded(size, padding) ==
    [x |-> size.x - padding.left - padding.right,
     y |-> size.y - padding.top - padding.bottom]

SizeBoxSet ==
    [left : 0..MaxPad, top : 0..MaxPad, right : 0..MaxPad, bottom : 0..MaxPad]

Size2DSet == [x : 0..MaxDim, y : 0..MaxDim]

LayoutSpaceSet ==
    [dimensions : Size2DSet, expand : BOOLEAN \X BOOLEAN, padding : SizeBoxSet]

\* Sizes handed to anchor. A Size is an f32, whose halving is exact; the model
\* counts in half units so that size / 2 is exact in the integers too.
AnchorSizes == {2 * k : k \in 0..MaxSize}

(***************************************************************************)
(* Geometry: LayoutSpace.                                                  *)
(***************************************************************************)
start(self) == Size2D_new(self.padding.left, self.padding.right)

usable(self) == unpadded(self.dimensions, self.padding)

\* A usable_space() that copies the space and only shrinks its dimensions.
usable_space_KeepsRest(self) ==
    [dimensions |-> usable(self),
     expand |-> self.expand,
     padding |-> self.padding]

usable_space(self) ==
    [dimensions |-> usable(self),
     expand |-> <<FALSE, FALSE>>,
     padding |-> SizeBox_zero]

(***************************************************************************)
(* Geometry: Axis, LayoutAxes, anchor.                                     *)
(***************************************************************************)
is_horizontal(axis) ==
    CASE axis \in {"LeftToRight", "RightToLeft"} -> TRUE
      [] axis \in {"TopToBottom", "BottomToTop"} -> FALSE

is_positive(axis) ==
    CASE axis \in {"LeftToRight", "TopToBottom"} -> TRUE
      [] axis \in {"RightToLeft", "BottomToTop"} -> FALSE

factor(axis) == IF is_positive(axis) THEN 1 ELSE -1

LayoutAxes_new(primary, secondary) ==
    [primary |-> primary, secondary |-> secondary]

\* A generalize() that looks at the secondary axis to decide the swap.
generalize_BySecondary(self, size) ==
    IF ~is_horizontal(self.secondary)
    THEN size
    ELSE [x |-> size.y, y |-> size.x]

generalize(self, size) ==
    IF is_horizontal(self.primary)
    THEN size
    ELSE [x |-> size.y, y |-> size.x]

specialize(self, size) == generalize(self, size)

\* An anchor() that ignores the direction of the axis.
anchor_IgnoresDirection(axis, size, alignment) ==
    CASE alignment = "Origin" -> Size_zero
      [] alignment = "Center" -> size \div 2
      [] alignment = "End" -> size

anchor(axis, size, alignment) ==
    CASE (is_positive(axis) /\ alignment = "Origin")
           \/ (~is_positive(axis) /\ alignment = "End") -> Size_zero
      [] alignment = "Center" -> size \div 2
      [] (is_positive(axis) /\ alignment = "End")
           \/ (~is_positive(axis) /\ alignment = "Origin") -> size

(***************************************************************************)
(* Geometry: one action per call. The functions are pure, so a behaviour   *)
(* makes one call on inputs drawn from the bounded sets, and then the      *)
(* calls that take its result.                                             *)
(***************************************************************************)
GeomIdle == op = "none" /\ arg = <<>> /\ ret = <<>>

Start ==
    /\ op = "none"
    /\ \E sp \in LayoutSpaceSet :
          /\ op' = "start"
          /\ arg' = sp
          /\ ret' = start(sp)
    /\ UNCHANGED <<spacingVars, serVars>>

Usable ==
    /\ op = "none"
    /\ \E sp \in LayoutSpaceSet :
          /\ op' = "usable"
          /\ arg' = sp
          /\ ret' = usable(sp)
    /\ UNCHANGED <<spacingVars, serVars>>

UsableSpace ==
    /\ op = "none"
    /\ \E sp \in LayoutSpaceSet :
          /\ op' = "usable_space"
          /\ arg' = sp
          /\ ret' = usable_space(sp)
    /\ UNCHANGED <<spacingVars, serVars>>

\* usable_space() of the space a previous usable_space() returned
UsableSpaceAgain ==
    /\ op = "usable_space"
    /\ op' = "usable_space_again"
    /\ arg' = ret
    /\ ret' = usable_space(ret)
    /\ UNCHANGED <<spacingVars, serVars>>

NewAxes ==
    /\ op = "none"
    /\ \E p \in Axis, s \in Axis :
          /\ op' = "new"
          /\ arg' = [primary |-> p, secondary |-> s]
          /\ ret' = LayoutAxes_new(p, s)
    /\ UNCHANGED <<spacingVars, serVars>>

Generalize ==
    /\ op = "none"
    /\ \E p \in Axis, s \in Axis, size \in Size2DSet :
          /\ op' = "generalize"
          /\ arg' = [axes |-> LayoutAxes_new(p, s), size |-> size]
          /\ ret' = generalize(LayoutAxes_new(p, s), size)
    /\ UNCHANGED <<spacingVars, serVars>>

\* specialize() of the size a previous generalize() returned, same axes
Specialize ==
    /\ op = "generalize"
    /\ op' = "specialize"
    /\ arg' = [axes |-> arg.axes, size |-> ret, from |-> arg.size]
    /\ ret' = specialize(arg.axes, ret)
    /\ UNCHANGED <<spacingVars, serVars>>

\* generalize() of the size a previous generalize() returned, same axes
GeneralizeAgain ==
    /\ op = "generalize"
    /\ op' = "generalize_again"
    /\ arg' = [axes |-> arg.axes, size |-> ret, from |-> arg.size]
    /\ ret' = generalize(arg.axes, ret)
    /\ UNCHANGED <<spacingVars, serVars>>

Anchor ==
    /\ op = "none"
    /\ \E axis \in Axis, size \in AnchorSizes, alignment \in Alignment :
          /\ op' = "anchor"
          /\ arg' = [axis |-> axis, size |-> size, alignment |-> alignment]
          /\ ret' = anchor(axis, size, alignment)
    /\ UNCHANGED <<spacingVars, serVars>>

(***************************************************************************)
(* Geometry: properties.                                                   *)
(***************************************************************************)

\* C1: start() returns (padding.left, padding.top): the x component is the
\* left padding and the y component is the top padding, for every space.
C1_StartIsLeftTop ==
    op = "start" =>
        /\ ret.x = arg.padding.left
        /\ ret.y = arg.padding.top

\* C2: generalize is the identity when the primary axis is horizontal and
\* swaps x and y when it is vertical, whatever the secondary axis and the
\* directions; applying generalize or specialize to its result gives the
\* size it started from.
C2_GeneralizeInvolution ==
    /\ op = "generalize" =>
          ret = IF arg.axes.primary \in {"LeftToRight", "RightToLeft"}
                THEN arg.size
                ELSE [x |-> arg.size.y, y |-> arg.size.x]
    /\ op \in {"specialize", "generalize_again"} => ret = arg.from

C2_Witness ==
    /\ op = "specialize"
    /\ arg.axes.primary = "BottomToTop"
    /\ arg.axes.secondary = "TopToBottom"
    /\ arg.from.x /= arg.from.y
    /\ arg.size /= arg.from

Mirror(axis) ==
    CASE axis = "LeftToRight" -> "RightToLeft"
      [] axis = "RightToLeft" -> "LeftToRight"
      [] axis = "TopToBottom" -> "BottomToTop"
      [] axis = "BottomToTop" -> "TopToBottom"

\* C3: anchor is defined for all 4 axes and 3 alignments: 0 for Origin on a
\* positive axis and End on a negative one, size for End on a positive axis
\* and Origin on a negative one, size/2 for Center; the Origin and End
\* anchors add up to size, and mirroring the axis swaps them and keeps Center.
C3_AnchorTable ==
    op = "anchor" =>
        LET positive == arg.axis \in {"LeftToRight", "TopToBottom"}
        IN  /\ (positive /\ arg.alignment = "Origin") => ret = 0
            /\ (~positive /\ arg.alignment = "End") => ret = 0
            /\ (positive /\ arg.alignment = "End") => ret = arg.size
            /\ (~positive /\ arg.alignment = "Origin") => ret = arg.size
            /\ arg.alignment = "Center" => ret + ret = arg.size
            /\ anchor(arg.axis, arg.size, "Origin")
                 + anchor(arg.axis, arg.size, "End") = arg.size
            /\ anchor(Mirror(arg.axis), arg.size, "Origin")
                 = anchor(arg.axis, arg.size, "End")
            /\ anchor(Mirror(arg.axis), arg.size, "End")
                 = anchor(arg.axis, arg.size, "Origin")
            /\ anchor(Mirror(arg.axis), arg.size, "Center")
                 = anchor(arg.axis, arg.size, "Center")

C3_Witness ==
    /\ op = "anchor"
    /\ arg.axis = "RightToLeft"
    /\ arg.alignment = "Origin"
    /\ arg.size > 0
    /\ ret = arg.size

\* C4: usable() is the dimensions minus the padding (width less left and
\* right, height less top and bottom); usable_space() has the usable()
\* dimensions, zero padding and expand (false, false) whatever the original
\* flags, so its usable() is the original's and usable_space() of it is itself.
C4_UsableSpace ==
    /\ op = "usable" =>
          /\ ret.x = arg.dimensions.x - (arg.padding.left + arg.padding.right)
          /\ ret.y = arg.dimensions.y - (arg.padding.top + arg.padding.bottom)
    /\ op = "usable_space" =>
          /\ ret.dimensions = usable(arg)
          /\ ret.padding = [left |-> 0, top |-> 0, right |-> 0, bottom |-> 0]
          /\ ret.expand = <<FALSE, FALSE>>
          /\ usable(ret) = usable(arg)
    /\ op = "usable_space_again" => ret = arg

C4_Witness ==
    /\ op = "usable_space"
    /\ arg.expand = <<TRUE, TRUE>>
    /\ arg.padding = [left |-> 1, top |-> 2, right |-> 0, bottom |-> 1]
    /\ ret.dimensions.x < arg.dimensions.x
    /\ ret.dimensions.y < 0

\* C9: every LayoutAxes that can be constructed has exactly one horizontal
\* axis among primary and secondary.
C9_AxesPerpendicular ==
    op = "new" => is_horizontal(ret.primary) /= is_horizontal(ret.secondary)

(***************************************************************************)
(* Spacing: the kinds of spacing and a layouter's last-spacing state.      *)
(***************************************************************************)
SpacingKind_Hard == [kind |-> "Hard"]

SpacingKind_Soft(level) == [kind |-> "Soft", level |-> level]

\* A PARAGRAPH_KIND that is weaker than the kind of normal spaces.
PARAGRAPH_KIND_Weak == SpacingKind_Soft(3)

PARAGRAPH_KIND == SpacingKind_Soft(1)

SPACE_KIND == SpacingKind_Soft(2)

LastSpacing_Hard == [kind |-> "Hard"]

LastSpacing_Soft(size, level) == [kind |-> "Soft", size |-> size, level |-> level]

LastSpacing_None == [kind |-> "None"]

\* A soft_or_zero() that is zero for every state.
soft_or_zero_AlwaysZero(self) == Size_zero

soft_or_zero(self) ==
    CASE self.kind = "Soft" -> self.size
      [] OTHER -> Size_zero

\* The sizes and kinds of the spacing a layouter is asked for.
SpaceSizes == {3, 5}

SpacingKinds ==
    {SpacingKind_Hard} \cup {SpacingKind_Soft(l) : l \in 1..MaxLevel}

(***************************************************************************)
(* Spacing: the merge of a requested spacing into the pending one and the  *)
(* flush on content. The layouters that do this (mod stack, mod flex) are  *)
(* not part of the source at hand; the transitions follow the design       *)
(* document, section 4.3. LastSpacing::Hard holds no size, so the size of  *)
(* the deferred hard spacing is kept beside it, in pending_hard.           *)
(***************************************************************************)

\* A merge in which a soft spacing replaces a pending hard one.
merge_SoftOverHard(last, hard, space, kind) ==
    CASE kind.kind = "Hard" -> <<LastSpacing_Hard, space>>
      [] last.kind = "Soft" /\ kind.level >= last.level -> <<last, hard>>
      [] OTHER -> <<LastSpacing_Soft(space, kind.level), Size_zero>>

\* The pending spacing and hard size after a request for spacing of `kind`
\* and size `space`.
merge(last, hard, space, kind) ==
    CASE last.kind = "Hard" -> <<last, hard>>
      [] last.kind = "Soft" /\ kind.kind = "Soft" ->
            IF kind.level < last.level
            THEN <<LastSpacing_Soft(space, kind.level), hard>>
            ELSE <<last, hard>>
      [] last.kind = "Soft" /\ kind.kind = "Hard" -> <<LastSpacing_Hard, space>>
      [] last.kind = "None" /\ kind.kind = "Soft" ->
            <<LastSpacing_Soft(space, kind.level), hard>>
      [] last.kind = "None" /\ kind.kind = "Hard" -> <<LastSpacing_Hard, space>>

\* The actions the flush of the pending spacing emits.
flush(last, hard) ==
    CASE last.kind = "None" -> <<>>
      [] last.kind = "Soft" -> <<[type |-> "spacing", size |-> soft_or_zero(last)]>>
      [] last.kind = "Hard" -> <<[type |-> "spacing", size |-> hard]>>

NumContent(as) == Cardinality({i \in 1..Len(as) : as[i].type = "content"})

AddSpacing ==
    /\ ~finished
    /\ Len(reqs) < MaxRequests
    /\ \E space \in SpaceSizes, kind \in SpacingKinds :
          /\ last_spacing' = merge(last_spacing, pending_hard, space, kind)[1]
          /\ pending_hard' = merge(last_spacing, pending_hard, space, kind)[2]
          /\ reqs' = Append(reqs, [kind |-> kind, size |-> space])
    /\ UNCHANGED <<actions, finished, geomVars, serVars>>

AddContent ==
    /\ ~finished
    /\ NumContent(actions) < MaxContent
    /\ actions' = actions \o flush(last_spacing, pending_hard)
                    \o <<[type |-> "content"]>>
    /\ last_spacing' = LastSpacing_None
    /\ pending_hard' = Size_zero
    /\ reqs' = <<>>
    /\ UNCHANGED <<finished, geomVars, serVars>>

\* The end of the container: what is pending is dropped, nothing is emitted.
Finish ==
    /\ ~finished
    /\ finished' = TRUE
    /\ UNCHANGED <<last_spacing, pending_hard, actions, reqs, geomVars, serVars>>

(***************************************************************************)
(* Spacing: properties. reqs holds the requests made since the last        *)
(* content (or since the start of the container).                          *)
(***************************************************************************)
AllSoft(rs) == \A i \in 1..Len(rs) : rs[i].kind.kind = "Soft"

\* The earliest request among those with the lowest priority number.
Strongest(rs) ==
    CHOOSE i \in 1..Len(rs) :
        \A j \in 1..Len(rs) :
            \/ rs[i].kind.level < rs[j].kind.level
            \/ rs[i].kind.level = rs[j].kind.level /\ i <= j

IsSpacingStep == Len(reqs') = Len(reqs) + 1

IsContentStep == Len(actions') > Len(actions)

Requested == reqs'[Len(reqs')]

C5_PendingIsStrongest ==
    (reqs /= <<>> /\ AllSoft(reqs)) =>
        /\ last_spacing.kind = "Soft"
        /\ last_spacing.size = reqs[Strongest(reqs)].size
        /\ last_spacing.level = reqs[Strongest(reqs)].kind.level

C5_ParagraphSurvives ==
    (/\ \A i \in 1..Len(reqs) : reqs[i].kind \in {PARAGRAPH_KIND, SPACE_KIND}
     /\ \E i \in 1..Len(reqs) : reqs[i].kind = PARAGRAPH_KIND) =>
        /\ last_spacing.kind = "Soft"
        /\ last_spacing.level = PARAGRAPH_KIND.level
        /\ \E i \in 1..Len(reqs) :
              /\ reqs[i].kind = PARAGRAPH_KIND
              /\ reqs[i].size = last_spacing.size
              /\ \A j \in 1..(i - 1) : reqs[j].kind /= PARAGRAPH_KIND

C5_FlushesStrongest ==
    (IsContentStep /\ reqs /= <<>> /\ AllSoft(reqs)) =>
        actions' = actions
                     \o <<[type |-> "spacing", size |-> reqs[Strongest(reqs)].size]>>
                     \o <<[type |-> "content"]>>

\* C5: after soft requests only, with no content in between, the pending
\* spacing is the request with the strictly lowest priority number, the
\* earliest one on a tie, and that is the size the next content flushes; a
\* paragraph spacing is never replaced by an ordinary space.
C5_SoftPriority ==
    /\ [](C5_PendingIsStrongest /\ C5_ParagraphSurvives)
    /\ [][C5_FlushesStrongest]_vars

C5_Witness ==
    /\ Len(reqs) = 3
    /\ reqs[1] = [kind |-> SpacingKind_Soft(2), size |-> 5]
    /\ reqs[2] = [kind |-> SpacingKind_Soft(1), size |-> 3]
    /\ reqs[3] = [kind |-> SpacingKind_Soft(1), size |-> 5]
    /\ last_spacing = LastSpacing_Soft(3, 1)
    /\ Len(actions) = 2
    /\ actions[1] = [type |-> "spacing", size |-> 5]

NoAdjacentSpacing(as) ==
    \A i \in 1..(Len(as) - 1) :
        ~(as[i].type = "spacing" /\ as[i + 1].type = "spacing")

C7_FlushStep ==
    IsContentStep =>
        /\ last_spacing.kind = "None" =>
              actions' = Append(actions, [type |-> "content"])
        /\ last_spacing.kind = "Soft" =>
              actions' = actions
                           \o <<[type |-> "spacing", size |-> last_spacing.size]>>
                           \o <<[type |-> "content"]>>
        /\ last_spacing.kind = "Hard" =>
              actions' = actions
                           \o <<[type |-> "spacing", size |-> pending_hard]>>
                           \o <<[type |-> "content"]>>
        /\ last_spacing'.kind = "None"

ActionSet == {"MoveAbsolute", "WriteText"}

DimensionSet == {Size2D_new(1, 2), Size2D_new(2, 1)}

SeqsUpTo(S, n) == UNION {[1..k -> S] : k \in 0..n}

LayoutSet == [dimensions : DimensionSet, actions : SeqsUpTo(ActionSet, MaxActions)]

MultiLayoutSet == SeqsUpTo(LayoutSet, MaxLayouts)

\* What is serialized: a MultiLayout, or a single Layout.
TargetSet ==
    {[kind |-> "MultiLayout", layouts |-> m] : m \in MultiLayoutSet}
        \cup {[kind |-> "Layout", layouts |-> <<l>>] : l \in LayoutSet}

NL == [t |-> "newline"]

\* writeln!(f, "{:.4} {:.4}", dimensions.x.to_pt(), dimensions.y.to_pt())
dimensions_line(layout) ==
    <<[t |-> "dimensions", x |-> layout.dimensions.x, y |-> layout.dimensions.y], NL>>

\* writeln!(f, "{}", self.actions.len())
count_line(layout) == <<[t |-> "count", n |-> Len(layout.actions)], NL>>

\* writeln!(f, "{}", self.len())
multi_count_line(self) == <<[t |-> "count", n |-> Len(self)], NL>>

\* LayoutAction::serialize (mod actions): one record, with no newline in it.
action_serialize(action) == <<[t |-> "action", v |-> action]>>

(***************************************************************************)
(* Serialization: one action per write. Every write either succeeds and    *)
(* appends its pieces, or fails: the `?` then returns the error at once.   *)
(* A failed write is taken to have written nothing.                        *)
(***************************************************************************)
layout == target.layouts[li]

WriteFails ==
    /\ result' = "Err"
    /\ pc' = "done"
    /\ UNCHANGED <<target, out, li, ai>>

\* Layout::serialize returns Ok: the caller's loop goes on, or it is the end.
LayoutReturns ==
    IF target.kind = "MultiLayout" /\ li < Len(target.layouts)
    THEN /\ pc' = "dimensions"
         /\ li' = li + 1
         /\ ai' = 0
         /\ result' = result
    ELSE /\ pc' = "done"
         /\ result' = "Ok"
         /\ UNCHANGED <<li, ai>>

\* MultiLayout::serialize: the line with the number of layouts
SerializeMultiCount ==
    /\ pc = "multi_count"
    /\ \/ /\ out' = out \o multi_count_line(target.layouts)
          /\ IF Len(target.layouts) > 0
             THEN /\ pc' = "dimensions"
                  /\ li' = 1
                  /\ result' = result
             ELSE /\ pc' = "done"
                  /\ li' = li
                  /\ result' = "Ok"
          /\ UNCHANGED <<target, ai>>
       \/ WriteFails
    /\ UNCHANGED <<geomVars, spacingVars>>

\* Layout::serialize: the line with the dimensions
SerializeDimensions ==
    /\ pc = "dimensions"
    /\ \/ /\ out' = out \o dimensions_line(layout)
          /\ pc' = "count"
          /\ UNCHANGED <<target, li, ai, result>>
       \/ WriteFails
    /\ UNCHANGED <<geomVars, spacingVars>>

\* Layout::serialize: the line with the number of actions
SerializeCount ==
    /\ pc = "count"
    /\ \/ /\ out' = out \o count_line(layout)
          /\ IF Len(layout.actions) > 0
             THEN /\ pc' = "action"
                  /\ ai' = 1
                  /\ UNCHANGED <<li, result>>
             ELSE LayoutReturns
          /\ UNCHANGED target
       \/ WriteFails
    /\ UNCHANGED <<geomVars, spacingVars>>

\* A loop over the actions that runs from the last to the first.
SerializeAction_Reversed ==
    /\ pc = "action"
    /\ \/ /\ out' = out \o action_serialize(
                        layout.actions[Len(layout.actions) + 1 - ai])
          /\ pc' = "action_newline"
          /\ UNCHANGED <<target, li, ai, result>>
       \/ WriteFails
    /\ UNCHANGED <<geomVars, spacingVars>>

\* Layout::serialize: action.serialize(f)?
SerializeAction ==
    /\ pc = "action"
    /\ \/ /\ out' = out \o action_serialize(layout.actions[ai])
          /\ pc' = "action_newline"
          /\ UNCHANGED <<target, li, ai, result>>
       \/ WriteFails
    /\ UNCHANGED <<geomVars, spacingVars>>

\* A loop over the actions that writes no newline after an action.
SerializeActionNewline_Missing ==
    /\ pc = "action_newline"
    /\ \/ /\ out' = out
          /\ IF ai < Len(layout.actions)
             THEN /\ pc' = "action"
                  /\ ai' = ai + 1
                  /\ UNCHANGED <<li, result>>
             ELSE LayoutReturns
          /\ UNCHANGED target
       \/ WriteFails
    /\ UNCHANGED <<geomVars, spacingVars>>

\* Layout::serialize: writeln!(f)? after the action
SerializeActionNewline ==
    /\ pc = "action_newline"
    /\ \/ /\ out' = out \o <<NL>>
          /\ IF ai < Len(layout.actions)
             THEN /\ pc' = "action"
                  /\ ai' = ai + 1
                  /\ UNCHANGED <<li, result>>
             ELSE LayoutReturns
          /\ UNCHANGED target
       \/ WriteFails
    /\ UNCHANGED <<geomVars, spacingVars>>

SpacingIdle ==
    /\ last_spacing = LastSpacing_None
    /\ pending_hard = Size_zero
    /\ actions = <<>>
    /\ reqs = <<>>
    /\ finished = FALSE

SerIdle ==
    /\ target = <<>>
    /\ out = <<>>
    /\ pc = "idle"
    /\ li = 0
    /\ ai = 0
    /\ result = "none"

GeomInit == GeomIdle /\ SpacingIdle /\ SerIdle

GeomNext ==
    \/ Start
    \/ Usable
    \/ UsableSpace
    \/ UsableSpaceAgain
    \/ NewAxes
    \/ Generalize
    \/ Specialize
    \/ GeneralizeAgain
    \/ Anchor

SpecGeom == GeomInit /\ [][GeomNext]_vars

SpacingInit == GeomIdle /\ SpacingIdle /\ SerIdle

SpacingNext ==
    \/ AddSpacing
    \/ AddContent
    \/ Finish

SpecSpacing == SpacingInit /\ [][SpacingNext]_vars

SerInit ==
    /\ GeomIdle
    /\ SpacingIdle
    /\ target \in TargetSet
    /\ out = <<>>
    /\ pc = IF target.kind = "MultiLayout" THEN "multi_count" ELSE "dimensions"
    /\ li = IF target.kind = "MultiLayout" THEN 0 ELSE 1
    /\ ai = 0
    /\ result = "none"

SerNext ==
    \/ SerializeMultiCount
    \/ SerializeDimensions
    \/ SerializeCount
    \/ SerializeAction
    \/ SerializeActionNewline

SpecSer == SerInit /\ [][SerNext]_vars

(***************************************************************************)
(* Serialization: properties.                                              *)
(***************************************************************************)
NumLines(o) == Cardinality({i \in 1..Len(o) : o[i] = NL})

RECURSIVE SumOfLines(_)
SumOfLines(ls) ==
    IF ls = <<>> THEN 0
    ELSE 2 + Len(ls[1].actions) + SumOfLines(Tail(ls))

\* C8: a MultiLayout of n layouts, layout i with k_i actions, is written as
\* exactly 1 + the sum of (2 + k_i) newline-terminated lines; a single
\* Layout with k actions as 2 + k lines; an empty MultiLayout as 1 line.
C8_LineCount ==
    result = "Ok" =>
        /\ out /= <<>>
        /\ out[Len(out)] = NL
        /\ target.kind = "MultiLayout" =>
              NumLines(out) = 1 + SumOfLines(target.layouts)
        /\ target.kind = "Layout" =>
              NumLines(out) = 2 + Len(target.layouts[1].actions)
        /\ (target.kind = "MultiLayout" /\ target.layouts = <<>>) =>
              NumLines(out) = 1

C8_Witness ==
    /\ result = "Ok"
    /\ target.kind = "MultiLayout"
    /\ Len(target.layouts) = 2
    /\ Len(target.layouts[1].actions) = 0
    /\ Len(target.layouts[2].actions) = 2
    /\ NumLines(out) = 7

RECURSIVE ActionRecords(_)
ActionRecords(as) ==
    IF as = <<>> THEN <<>>
    ELSE <<[t |-> "action", v |-> as[1]], NL>> \o ActionRecords(Tail(as))

LayoutRecords(l) ==
    <<[t |-> "dimensions", x |-> l.dimensions.x, y |-> l.dimensions.y], NL,
      [t |-> "count", n |-> Len(l.actions)], NL>>
        \o ActionRecords(l.actions)

RECURSIVE LayoutsRecords(_)
LayoutsRecords(ls) ==
    IF ls = <<>> THEN <<>>
    ELSE LayoutRecords(ls[1]) \o LayoutsRecords(Tail(ls))

\* The whole text: the number of layouts first (for a MultiLayout), then
\* each layout in order: dimensions, number of actions, the actions in order.
Records ==
    IF target.kind = "MultiLayout"
    THEN <<[t |-> "count", n |-> Len(target.layouts)], NL>>
            \o LayoutsRecords(target.layouts)
    ELSE LayoutRecords(target.layouts[1])

IsPrefix(p, q) == Len(p) <= Len(q) /\ p = SubSeq(q, 1, Len(p))

\* C10: the output starts with the number of layouts, the layouts follow in
\* order, each with its dimensions line, its count line (the number of
\* action records that follow) and its action records in order, each ended
\* by one newline; a failed write ends the serialization with the error and
\* nothing is written after it.
C10_OrderAndCount ==
    /\ [](/\ IsPrefix(out, Records)
          /\ result = "Ok" => out = Records
          /\ result = "Err" => out /= Records
          /\ result /= "none" <=> pc = "done")
    /\ [][result' = "Err" => out' = out]_vars
    /\ [][pc = "done" => UNCHANGED <<out, result>>]_vars

C10_Witness ==
    /\ result = "Err"
    /\ target.kind = "MultiLayout"
    /\ Len(target.layouts) = 2
    /\ target.layouts[1].actions = <<"WriteText", "MoveAbsolute">>
    /\ target.layouts[1].dimensions /= target.layouts[2].dimensions
    /\ li = 2
    /\ Len(out) = 10
    /\ out[7] = [t |-> "action", v |-> "WriteText"]
    /\ out[9] = [t |-> "action", v |-> "MoveAbsolute"]

====
